---- MODULE Spec2Model ----
(***************************************************************************)
(* Model of the image-drop server (src/src/server/index.ts): the two       *)
(* request handlers POST /api/upload-image and GET /api/my-images, the     *)
(* magic-number checks, and the two external services they call, the      *)
(* media store (media.upload) and the key-value store (redis.hSet,         *)
(* redis.hGetAll).                                                         *)
(*                                                                         *)
(* A handler is an async function: it runs without interruption up to an   *)
(* await, and other requests run while it waits.  Each action below is the *)
(* code between two awaits, together with the external call that the       *)
(* second await waits for.                                                 *)
(***************************************************************************)
EXTENDS Integers, Sequences, FiniteSets, Bags, TLC

VARIABLES
    reqs,       \* the requests in flight (waiting at an await): a bag of requests
    budget,     \* how many more requests may reach an await
    last,       \* the request answered by the latest step, with its response, or Idle
    store,      \* the key-value store: user -> (field -> stored string)
    media,      \* the media store: mediaUrl -> what was uploaded
    clock,      \* the last reading of the wall clock (new Date())
    acked,      \* the uploads answered with 200: records [userId, assetData]
    listed      \* user -> the assets some answered history query has returned

vars == <<reqs, budget, last, store, media, clock, acked, listed>>

----------------------------------------------------------------------------
(* Bounds of the model. *)

MaxReq == 3         \* requests that reach an await in one behaviour of Spec
MaxValidated == 1   \* the same, in one behaviour of SpecValidate
MaxTicks == 3       \* how far the clock advances
StartClock == 8     \* the clock's first reading (so that readings cross 9 -> 10)
IsoWidth == 2       \* digits of a timestamp

----------------------------------------------------------------------------
(* Values. *)

NoUser == "anonymous"               \* context.userId is undefined
Users == {"u1", "u2"}
Callers == Users \cup {NoUser}

AllowedTypes == {"image/png", "image/jpeg", "image/gif", "image/webp"}
ContentTypes == AllowedTypes \cup {"text/plain"}

PngBody == <<137, 80, 78, 71, 13, 10, 26, 10>>
PngTrailing == PngBody \o <<0>>
JpegBody == <<255, 216, 255, 217>>
JpegBadTrailer == <<255, 216, 255, 0>>
Gif89Body == <<71, 73, 70, 56, 57, 97>>
Gif87Body == <<71, 73, 70, 56, 55, 97>>
WebpBody == <<82, 73, 70, 70, 1, 2, 3, 4, 87, 69, 66, 80>>
EmptyBody == <<>>

Bodies ==
    {EmptyBody, PngBody, PngTrailing, JpegBody, JpegBadTrailer, Gif89Body,
     Gif87Body, WebpBody}

----------------------------------------------------------------------------
(* The shapes of the records.  An UploadedAsset is the record assetData of *)
(* the upload handler; NoAsset stands for null.                            *)

NoUrl == <<"url", 0>>
NoId == <<"id", 0>>
NoAsset == [mediaType |-> "", mediaUrl |-> NoUrl, mediaId |-> NoId, date |-> <<>>]

(* What redis.hGetAll resolves to: the map, or nothing at all. *)
NoEntries == [present |-> FALSE, map |-> <<>>]

(* A request with the local variables of its handler and its response. *)
NewRequest(kind, userId, contentType, body) ==
    [kind |-> kind, userId |-> userId, contentType |-> contentType, body |-> body,
     pc |-> "start", status |-> 0, respType |-> "", message |-> "", bytes |-> 0,
     validByMagic |-> FALSE, assetData |-> NoAsset,
     entries |-> NoEntries, assets |-> <<>>,
     mediaCalls |-> 0, kvReads |-> 0, kvWrites |-> 0,
     mediaFailed |-> FALSE, kvFailed |-> FALSE]

(* The value of last after a step that answers no request. *)
Idle == NewRequest("none", NoUser, "", <<>>)

(* Well-formed uploads: a declared type with a body of that format. *)
Images ==
    { [contentType |-> "image/png", body |-> PngBody],
      [contentType |-> "image/gif", body |-> Gif89Body] }

----------------------------------------------------------------------------
(* The magic-number checks.  buf[i] of the code is At(buf, i): Buffer      *)
(* indices start at 0, and reading past the end gives undefined (-1).      *)

At(buf, i) == IF i >= 0 /\ i < Len(buf) THEN buf[i + 1] ELSE -1

isPng(buf) ==
    /\ Len(buf) >= 8
    /\ At(buf, 0) = 137     \* 0x89
    /\ At(buf, 1) = 80      \* 0x50
    /\ At(buf, 2) = 78      \* 0x4e
    /\ At(buf, 3) = 71      \* 0x47
    /\ At(buf, 4) = 13      \* 0x0d
    /\ At(buf, 5) = 10      \* 0x0a
    /\ At(buf, 6) = 26      \* 0x1a
    /\ At(buf, 7) = 10      \* 0x0a

isJpeg(buf) ==
    /\ Len(buf) >= 4
    /\ At(buf, 0) = 255     \* 0xff
    /\ At(buf, 1) = 216     \* 0xd8
    /\ At(buf, Len(buf) - 2) = 255      \* 0xff
    /\ At(buf, Len(buf) - 1) = 217      \* 0xd9

isGif(buf) ==
    /\ Len(buf) >= 6
    /\ At(buf, 0) = 71      \* G
    /\ At(buf, 1) = 73      \* I
    /\ At(buf, 2) = 70      \* F
    /\ At(buf, 3) = 56      \* 8
    /\ (At(buf, 4) = 55 \/ At(buf, 4) = 57)     \* 7 or 9
    /\ At(buf, 5) = 97      \* a

isWebp(buf) ==
    /\ Len(buf) >= 12
    /\ At(buf, 0) = 82      \* R
    /\ At(buf, 1) = 73      \* I
    /\ At(buf, 2) = 70      \* F
    /\ At(buf, 3) = 70      \* F
    /\ At(buf, 8) = 87      \* W
    /\ At(buf, 9) = 69      \* E
    /\ At(buf, 10) = 66     \* B
    /\ At(buf, 11) = 80     \* P

(* A dispatch that forgets the declared type. *)
ValidByMagicAnyType(contentType, body) ==
    isPng(body) \/ isJpeg(body) \/ isGif(body) \/ isWebp(body)

ValidByMagic(contentType, body) ==
    \/ contentType = "image/png" /\ isPng(body)
    \/ contentType = "image/jpeg" /\ isJpeg(body)
    \/ contentType = "image/gif" /\ isGif(body)
    \/ contentType = "image/webp" /\ isWebp(body)

AllowedContentType(contentType) ==
    ~ ( /\ contentType # "image/png"
        /\ contentType # "image/jpeg"
        /\ contentType # "image/gif"
        /\ contentType # "image/webp" )

(* A body check that is never taken. *)
EmptyOrInvalidBodyNever(body) == FALSE

(* !body || !Buffer.isBuffer(body) || body.length === 0: express.raw gives *)
(* the handler a Buffer only when the request carried bytes.               *)
EmptyOrInvalidBody(body) == Len(body) = 0

(* A media type that forgets GIFs. *)
MediaTypeOfAlwaysImage(contentType) == "image"

MediaTypeOf(contentType) == IF contentType = "image/gif" THEN "gif" ELSE "image"

(* A check that lets every caller through. *)
AuthorizedAlways(userId) == TRUE

(* if (!context.userId) ... 401 *)
Authorized(userId) == userId # NoUser

----------------------------------------------------------------------------
(* Timestamps.  new Date().toISOString() is a fixed-width string, modelled *)
(* as the IsoWidth decimal digits of the clock reading; a.date < b.date is *)
(* the comparison of two strings, character by character.                  *)

RECURSIVE Digits(_, _)
Digits(n, width) ==
    IF width = 0 THEN <<>> ELSE Append(Digits(n \div 10, width - 1), n % 10)

ToISOString(t) == Digits(t, IsoWidth)

RECURSIVE StringLess(_, _)
StringLess(a, b) ==
    IF Len(b) = 0 THEN FALSE
    ELSE IF Len(a) = 0 THEN TRUE
    ELSE IF Head(a) # Head(b) THEN Head(a) < Head(b)
    ELSE StringLess(Tail(a), Tail(b))

----------------------------------------------------------------------------
(* Stored strings.  JSON.stringify(assetData) writes the four members of   *)
(* the record as the text of a JSON object.  A stored string is modelled   *)
(* by the JSON text it holds: the text of an object, the text "null", or   *)
(* text that is no JSON (syntax "broken", on which JSON.parse throws).     *)

JSONstringify(a) ==
    [mediaType |-> a.mediaType, mediaUrl |-> a.mediaUrl, mediaId |-> a.mediaId,
     date |-> a.date, syntax |-> "object"]

ParseThrows(raw) == raw.syntax = "broken"

(* JSON.parse(raw) when it does not throw; null is NoAsset. *)
JSONparse(raw) ==
    IF raw.syntax = "object"
    THEN [mediaType |-> raw.mediaType, mediaUrl |-> raw.mediaUrl,
          mediaId |-> raw.mediaId, date |-> raw.date]
    ELSE NoAsset

(* A decoder that lets the exception of JSON.parse escape. *)
DecodeUnguarded(raw) == [threw |-> ParseThrows(raw), value |-> JSONparse(raw)]

(* try { return JSON.parse(raw) } catch { return null } *)
Decode(raw) ==
    [threw |-> FALSE, value |-> IF ParseThrows(raw) THEN NoAsset ELSE JSONparse(raw)]

(* Boolean(a): null is falsy, an object is truthy. *)
Truthy(a) == a # NoAsset

----------------------------------------------------------------------------
(* The history list: Object.values(entries || {}).map(decode)              *)
(*                       .filter(Boolean).sort(by date, descending).       *)

Min(a, b) == IF a <= b THEN a ELSE b

(* An ascending comparator. *)
CompareAscending(a, b) == IF StringLess(b.date, a.date) THEN 1 ELSE -1

(* (a, b) => (a.date < b.date ? 1 : -1) *)
Compare(a, b) == IF StringLess(a.date, b.date) THEN 1 ELSE -1

(* Array.prototype.sort as an insertion sort: x goes before the first      *)
(* element y with Compare(x, y) < 0.                                       *)
RECURSIVE InsertSorted(_, _)
InsertSorted(x, s) ==
    IF s = <<>> THEN <<x>>
    ELSE IF Compare(x, Head(s)) < 0 THEN <<x>> \o s
    ELSE <<Head(s)>> \o InsertSorted(x, Tail(s))

RECURSIVE Sort(_)
Sort(s) ==
    IF s = <<>> THEN <<>>
    ELSE InsertSorted(s[Len(s)], Sort(SubSeq(s, 1, Len(s) - 1)))

(* The orders in which the fields of a map can be enumerated. *)
Orders(S) ==
    {f \in [1..Cardinality(S) -> S] : \A i, j \in 1..Cardinality(S) : f[i] = f[j] => i = j}

(* entries with the fallback forgotten. *)
OrEmptyMissing(entries) == entries

(* entries || {} *)
OrEmpty(entries) == IF entries.present THEN entries ELSE [present |-> TRUE, map |-> <<>>]

(* Object.values(obj), enumerated in the given order; it throws on undefined. *)
ObjectValues(obj, order) ==
    [threw |-> ~obj.present,
     values |-> IF obj.present THEN [i \in 1..Len(order) |-> obj.map[order[i]]] ELSE <<>>]

(* Lines 74-83: the assets of the response, or threw when an exception     *)
(* reaches the handler's catch.                                            *)
ListAssets(entries, order) ==
    LET vals == ObjectValues(OrEmpty(entries), order)
        decoded == [i \in 1..Len(vals.values) |-> Decode(vals.values[i])]
        parsed == [i \in 1..Len(decoded) |-> decoded[i].value]
    IN  [assets |-> Sort(SelectSeq(parsed, Truthy)),
         threw |-> vals.threw \/ \E i \in 1..Len(decoded) : decoded[i].threw]

Range(s) == {s[i] : i \in DOMAIN s}

----------------------------------------------------------------------------
(* The key-value store's field write. *)

(* A write that replaces the whole collection. *)
HSetReplacing(map, field, value) == (field :> value)

(* redis.hSet(key, {[field]: value}): sets one field, keeps the others. *)
HSet(map, field, value) == (field :> value) @@ map

MediaUrl(n) == <<"url", n>>
MediaId(n) == <<"id", n>>

----------------------------------------------------------------------------
(* The handlers. *)

(* res.status(code).json({status: 'error', message}) *)
RespondError(r, code, message) ==
    [r EXCEPT !.pc = "done", !.status = code, !.respType = "error", !.message = message]

(* Upload handler, lines 136-184: up to the call of media.upload. *)
UploadStart(r) ==
    IF ~Authorized(r.userId)
    THEN RespondError(r, 401, "Unauthorized")
    ELSE IF ~AllowedContentType(r.contentType)
    THEN RespondError(r, 415, "Unsupported Content-Type")
    ELSE IF EmptyOrInvalidBody(r.body)
    THEN RespondError(r, 400, "Empty or invalid request body")
    ELSE IF ~ValidByMagic(r.contentType, r.body)
    THEN RespondError(r, 415, "Invalid image format")
    ELSE [r EXCEPT !.validByMagic = TRUE, !.pc = "media", !.mediaCalls = @ + 1]

(* History handler, lines 69-73: up to the call of redis.hGetAll. *)
HistoryStart(r) ==
    IF ~Authorized(r.userId)
    THEN RespondError(r, 401, "Unauthorized")
    ELSE [r EXCEPT !.pc = "hgetall", !.kvReads = @ + 1]

(* A request arrives and its handler runs to its first await or response.  *)
(* A request answered at once leaves nothing behind but its response; a    *)
(* request that waits for a service is in flight.                          *)
Arrive(r) ==
    /\ IF r.pc = "done"
       THEN last' = r /\ UNCHANGED <<reqs, budget>>
       ELSE /\ budget > 0
            /\ budget' = budget - 1
            /\ reqs' = reqs (+) SetToBag({r})
            /\ last' = Idle
    /\ UNCHANGED <<store, media, clock, acked, listed>>

UploadRequest(userId, contentType, body) ==
    Arrive(UploadStart(NewRequest("upload", userId, contentType, body)))

HistoryRequest(userId) ==
    Arrive(HistoryStart(NewRequest("history", userId, "", <<>>)))

(* The handler of the request in flight r moves on, as request q. *)
Continue(r, q) ==
    /\ reqs' = (reqs (-) SetToBag({r})) (+) SetToBag({q})
    /\ last' = Idle

(* The handler of the request in flight r answers, as request q. *)
Answer(r, q) ==
    /\ reqs' = reqs (-) SetToBag({r})
    /\ last' = q

(* media.upload resolves; lines 186-195 run up to the call of redis.hSet. *)
MediaUploadOk(r) ==
    /\ r.pc = "media"
    /\ LET n == Cardinality(DOMAIN media) + 1
           mediaType == MediaTypeOf(r.contentType)
       IN  /\ media' = (MediaUrl(n) :> [mediaId |-> MediaId(n), type |-> mediaType]) @@ media
           /\ \E t \in clock..Min(clock + 1, StartClock + MaxTicks) :
                /\ clock' = t
                /\ Continue(r, [r EXCEPT !.assetData =
                                    [mediaType |-> mediaType, mediaUrl |-> MediaUrl(n),
                                     mediaId |-> MediaId(n), date |-> ToISOString(t)],
                                 !.pc = "hset", !.kvWrites = @ + 1])
    /\ UNCHANGED <<budget, store, acked, listed>>

(* A handler that calls media.upload again when it rejects. *)
MediaUploadFailRetrying(r) ==
    /\ r.pc = "media"
    /\ Continue(r, [r EXCEPT !.mediaCalls = @ + 1])
    /\ UNCHANGED <<budget, store, media, clock, acked, listed>>

(* media.upload rejects; the catch of lines 202-205 answers. *)
MediaUploadFail(r) ==
    /\ r.pc = "media"
    /\ Answer(r, RespondError([r EXCEPT !.mediaFailed = TRUE], 400,
                              "Failed to process image upload"))
    /\ UNCHANGED <<budget, store, media, clock, acked, listed>>

(* redis.hSet resolves; lines 197-201 answer. *)
HSetOk(r) ==
    /\ r.pc = "hset"
    /\ store' = [store EXCEPT ![r.userId] =
                    HSet(@, r.assetData.mediaUrl, JSONstringify(r.assetData))]
    /\ Answer(r, [r EXCEPT !.pc = "done", !.status = 200, !.respType = "upload",
                           !.bytes = Len(r.body)])
    /\ acked' = acked \cup {[userId |-> r.userId, assetData |-> r.assetData]}
    /\ UNCHANGED <<budget, media, clock, listed>>

(* A handler that swallows the rejection of redis.hSet and answers 200. *)
HSetFailSwallowed(r) ==
    /\ r.pc = "hset"
    /\ Answer(r, [r EXCEPT !.pc = "done", !.status = 200, !.respType = "upload",
                           !.bytes = Len(r.body), !.kvFailed = TRUE])
    /\ UNCHANGED <<budget, store, media, clock, acked, listed>>

(* redis.hSet rejects; the catch of lines 202-205 answers. *)
HSetFail(r) ==
    /\ r.pc = "hset"
    /\ Answer(r, RespondError([r EXCEPT !.kvFailed = TRUE], 400,
                              "Failed to process image upload"))
    /\ UNCHANGED <<budget, store, media, clock, acked, listed>>

(* redis.hGetAll resolves; lines 74-84 answer, or the catch of 85-88. *)
HGetAllOk(r) ==
    /\ r.pc = "hgetall"
    /\ LET map == store[r.userId]
       IN  \E present \in IF DOMAIN map = {} THEN BOOLEAN ELSE {TRUE} :
           \E order \in Orders(DOMAIN map) :
             LET entries == [present |-> present, map |-> map]
                 res == ListAssets(entries, order)
                 got == [r EXCEPT !.entries = entries]
             IN  IF res.threw
                 THEN /\ Answer(r, RespondError(got, 400, "Failed to fetch uploads"))
                      /\ UNCHANGED listed
                 ELSE /\ Answer(r, [got EXCEPT !.pc = "done", !.status = 200,
                                               !.respType = "listUploads",
                                               !.assets = res.assets])
                      /\ listed' = [listed EXCEPT ![r.userId] = @ \cup Range(res.assets)]
    /\ UNCHANGED <<budget, store, media, clock, acked>>

(* redis.hGetAll rejects; the catch of lines 85-88 answers. *)
HGetAllFail(r) ==
    /\ r.pc = "hgetall"
    /\ Answer(r, RespondError([r EXCEPT !.kvFailed = TRUE], 400,
                              "Failed to fetch uploads"))
    /\ UNCHANGED <<budget, store, media, clock, acked, listed>>

----------------------------------------------------------------------------
(* Specifications. *)

InitRest ==
    /\ reqs = EmptyBag
    /\ last = Idle
    /\ media = <<>>
    /\ clock = StartClock
    /\ acked = {}
    /\ listed = [u \in Users |-> {}]

(* The steps of the requests in flight. *)
Proceed ==
    \/ \E r \in BagToSet(reqs) : MediaUploadOk(r)
    \/ \E r \in BagToSet(reqs) : MediaUploadFail(r)
    \/ \E r \in BagToSet(reqs) : HSetOk(r)
    \/ \E r \in BagToSet(reqs) : HSetFail(r)
    \/ \E r \in BagToSet(reqs) : HGetAllOk(r)
    \/ \E r \in BagToSet(reqs) : HGetAllFail(r)

(* Spec: a fresh deployment, no user has a collection, and users upload    *)
(* well-formed images and ask for their history, concurrently.             *)
Init ==
    /\ InitRest
    /\ budget = MaxReq
    /\ store = [u \in Users |-> <<>>]

Next ==
    \/ \E u \in Users, img \in Images : UploadRequest(u, img.contentType, img.body)
    \/ \E u \in Users : HistoryRequest(u)
    \/ Proceed

Spec == Init /\ [][Next]_vars

(* SpecValidate: any caller, authenticated or not, sends any body under    *)
(* any declared type.                                                      *)
InitValidate ==
    /\ InitRest
    /\ budget = MaxValidated
    /\ store = [u \in Users |-> <<>>]

NextValidate ==
    \/ \E u \in Callers, ct \in ContentTypes, b \in Bodies : UploadRequest(u, ct, b)
    \/ \E u \in Callers : HistoryRequest(u)
    \/ Proceed

SpecValidate == InitValidate /\ [][NextValidate]_vars

(* SpecDamaged: as Spec, over a store that already holds damaged values in *)
(* the collection of u1: text cut short by an interrupted write, and the   *)
(* text "null".                                                            *)
BrokenValue ==
    [mediaType |-> "image", mediaUrl |-> NoUrl, mediaId |-> NoId, date |-> <<>>,
     syntax |-> "broken"]

NullValue ==
    [mediaType |-> "", mediaUrl |-> NoUrl, mediaId |-> NoId, date |-> <<>>,
     syntax |-> "null"]

DamagedCollections ==
    { (<<"old", 1>> :> BrokenValue),
      (<<"old", 1>> :> BrokenValue) @@ (<<"old", 2>> :> NullValue) }

InitDamaged ==
    /\ InitRest
    /\ budget = MaxReq
    /\ \E c \in DamagedCollections :
         store = [u \in Users |-> IF u = "u1" THEN c ELSE <<>>]

SpecDamaged == InitDamaged /\ [][Next]_vars

----------------------------------------------------------------------------
(* Properties. *)

(* The requests the state shows: those in flight and the one just answered. *)
Seen == BagToSet(reqs) \cup {last}

Uploads == {x \in Seen : x.kind = "upload"}

(* The stored strings of a map that hold the text of a JSON object. *)
ObjectValuesOf(map) == {map[k] : k \in {f \in DOMAIN map : map[f].syntax = "object"}}

(* C1: a request without caller identity, to either endpoint, is answered  *)
(* 401 in the step in which it arrives; it never waits for a service, it   *)
(* has called neither the media store nor the key-value store, and the     *)
(* step leaves the media store and every collection as they were.          *)
C1_UnauthenticatedNoEffect ==
    [][ /\ \A x \in BagToSet(reqs') : x.userId # NoUser
        /\ (last'.kind \in {"upload", "history"} /\ last'.userId = NoUser) =>
              /\ last'.status = 401
              /\ last'.message = "Unauthorized"
              /\ last'.mediaCalls = 0 /\ last'.kvReads = 0 /\ last'.kvWrites = 0
              /\ store' = store /\ media' = media /\ reqs' = reqs ]_vars

(* An upload without identity, carrying a valid PNG, is answered 401 while *)
(* a collection holds a record.                                            *)
C1_Witness ==
    /\ last.kind = "upload" /\ last.userId = NoUser /\ last.status = 401
    /\ last.contentType = "image/png" /\ last.body = PngBody
    /\ \E u \in Users : DOMAIN store[u] # {}

(* C2 as stated: when media.upload succeeded and redis.hSet failed, the    *)
(* upload is answered 200.                                                 *)
C2_Original ==
    (last.kind = "upload" /\ last.kvFailed) => last.status = 200

(* C2 as amended: when media.upload succeeded and redis.hSet failed, the   *)
(* upload is answered 400 "Failed to process image upload"; the asset is   *)
(* in the media store and absent from the caller's collection.             *)
C2_IndexFailureAnswered400 ==
    (last.kind = "upload" /\ last.kvFailed) =>
        /\ last.status = 400
        /\ last.respType = "error"
        /\ last.message = "Failed to process image upload"
        /\ last.mediaCalls = 1 /\ ~last.mediaFailed
        /\ last.assetData.mediaUrl \in DOMAIN media
        /\ last.assetData.mediaUrl \notin DOMAIN store[last.userId]

C2_Witness ==
    /\ last.kind = "upload" /\ last.kvFailed
    /\ last.assetData.mediaUrl \in DOMAIN media

(* C3 as stated: an authenticated upload with a zero-length body is        *)
(* answered 400 whatever the declared content type.                        *)
C3_Original ==
    (last.kind = "upload" /\ last.userId # NoUser /\ Len(last.body) = 0) =>
        last.status = 400

(* C3 as amended: an authenticated upload with a zero-length body is       *)
(* always rejected without any call to a service: with 400 when the        *)
(* declared type is one of the four allowed MIME strings, with 415         *)
(* "Unsupported Content-Type" when it is not.                              *)
C3_EmptyBodyRejected ==
    \A x \in Uploads :
        (x.userId # NoUser /\ Len(x.body) = 0) =>
            /\ x = last
            /\ x.mediaCalls = 0 /\ x.kvWrites = 0
            /\ IF x.contentType \in AllowedTypes
               THEN x.status = 400 /\ x.message = "Empty or invalid request body"
               ELSE x.status = 415 /\ x.message = "Unsupported Content-Type"

C3_Witness ==
    /\ last.kind = "upload" /\ last.userId # NoUser /\ Len(last.body) = 0
    /\ last.contentType = "image/png" /\ last.status = 400

(* The magic bytes of format F (named by its MIME type). *)
HasMagic(F, body) ==
    CASE F = "image/png" -> isPng(body)
      [] F = "image/jpeg" -> isJpeg(body)
      [] F = "image/gif" -> isGif(body)
      [] F = "image/webp" -> isWebp(body)

(* C4: an authenticated upload of a non-empty body with the magic bytes of *)
(* format F under an allowed declared type D passes the format check when  *)
(* D is the MIME type of F, and is answered 415 "Invalid image format"     *)
(* when D is one of the other three; every body with magic bytes is        *)
(* accepted under exactly one of the four declared types.                  *)
C4_DeclaredTypeMustMatchMagic ==
    /\ \A x \in Uploads : \A F \in AllowedTypes :
          ( /\ x.userId # NoUser
            /\ x.contentType \in AllowedTypes
            /\ Len(x.body) > 0
            /\ HasMagic(F, x.body) ) =>
              /\ x.validByMagic <=> (x.contentType = F)
              /\ x.contentType = F => x.mediaCalls = 1 /\ x.status # 415
              /\ x.contentType # F =>
                    /\ x.status = 415 /\ x.message = "Invalid image format"
                    /\ x.mediaCalls = 0
    /\ \A b \in Bodies : \A F \in AllowedTypes :
          HasMagic(F, b) => {D \in AllowedTypes : ValidByMagic(D, b)} = {F}

(* A GIF declared as PNG is answered 415. *)
C4_Witness ==
    /\ last.kind = "upload" /\ last.userId # NoUser
    /\ last.contentType = "image/png" /\ last.body = Gif89Body
    /\ last.status = 415 /\ last.message = "Invalid image format"

Times == StartClock..(StartClock + MaxTicks)

(* C5: in the list a history query returns, a record persisted at time T2  *)
(* stands before every record persisted at an earlier time T1, and the     *)
(* list holds one record for each record of the collection it read,        *)
(* whatever the order in which the store enumerated the fields.            *)
C5_NewestFirst ==
    (last.kind = "history" /\ last.status = 200) =>
        /\ Len(last.assets) = Cardinality(DOMAIN last.entries.map)
        /\ \A i, j \in 1..Len(last.assets) : \A t1, t2 \in Times :
              ( /\ t1 < t2
                /\ last.assets[i].date = ToISOString(t1)
                /\ last.assets[j].date = ToISOString(t2) ) => j < i

(* A list of two records, the newer (written after the clock passed from   *)
(* one digit to two) first.                                                *)
C5_Witness ==
    /\ last.kind = "history" /\ last.status = 200
    /\ Len(last.assets) = 2
    /\ last.assets[1].date = ToISOString(StartClock + 2)
    /\ last.assets[2].date = ToISOString(StartClock + 1)

(* C6: a history query of an authenticated user for whom the store returns *)
(* an empty map, or no map at all, is answered 200 with type listUploads   *)
(* and an empty list.                                                      *)
C6_EmptyHistory ==
    ( /\ last.kind = "history"
      /\ last.userId # NoUser
      /\ ~last.kvFailed
      /\ (~last.entries.present \/ DOMAIN last.entries.map = {}) ) =>
        /\ last.status = 200
        /\ last.respType = "listUploads"
        /\ last.assets = <<>>

(* The store returned no map at all, and the answer is 200. *)
C6_Witness ==
    /\ last.kind = "history" /\ ~last.kvFailed /\ last.kvReads = 1
    /\ ~last.entries.present
    /\ last.status = 200

(* C7: no step removes or alters a field of a collection, and a history    *)
(* query answered 200 returns every record that an earlier history query   *)
(* of the same user returned.                                              *)
C7_CollectionsGrow ==
    [][ /\ \A u \in Users : \A k \in DOMAIN store[u] :
              k \in DOMAIN store'[u] /\ store'[u][k] = store[u][k]
        /\ (last'.kind = "history" /\ last'.status = 200) =>
              listed[last'.userId] \subseteq Range(last'.assets) ]_vars

(* After a history query returned a record of a user, a later upload of    *)
(* that user was written; the collection holds both records.               *)
C7_Witness ==
    /\ last.kind = "upload" /\ last.status = 200
    /\ Cardinality(listed[last.userId]) = 1
    /\ Cardinality(DOMAIN store[last.userId]) = 2
    /\ \A a \in listed[last.userId] : a.mediaUrl \in DOMAIN store[last.userId]

(* C8: an upload calls the media store at most once and writes to the      *)
(* registry at most once; when the media-store call fails the request is   *)
(* answered 400, has made exactly that one call and no registry write, and *)
(* the step leaves every collection as it was.                             *)
C8_NoRetry ==
    [][ /\ \A x \in BagToSet(reqs') \cup {last'} :
              x.kind = "upload" => x.mediaCalls <= 1 /\ x.kvWrites <= 1
        /\ (last'.kind = "upload" /\ last'.mediaFailed) =>
              /\ last'.status = 400
              /\ last'.mediaCalls = 1 /\ last'.kvWrites = 0
              /\ last'.assetData = NoAsset
              /\ store' = store /\ media' = media /\ acked' = acked ]_vars

C8_Witness ==
    /\ last.kind = "upload" /\ last.mediaFailed /\ last.status = 400
    /\ last.mediaCalls = 1

C10_ConcurrentUploadsKeepBoth ==
    \A a \in acked :
        /\ a.assetData.mediaUrl \in DOMAIN store[a.userId]
        /\ store[a.userId][a.assetData.mediaUrl] = JSONstringify(a.assetData)

(* Two uploads of one user overlapped: the one whose media-store call      *)
(* returned first is answered after the other, and both are answered.      *)
C10_Witness ==
    /\ last.kind = "upload" /\ last.status = 200
    /\ last.assetData.mediaUrl = MediaUrl(1)
    /\ \E a \in acked : a.userId = last.userId /\ a.assetData.mediaUrl = MediaUrl(2)
    /\ Cardinality(DOMAIN store[last.userId]) = 2

(* Every record of a collection stands under its own mediaUrl, names an    *)
(* asset the media store holds, with the mediaId and the type the media    *)
(* store has for it, and belongs to an upload of that user answered 200.   *)
RecordsSound ==
    \A u \in Users : \A k \in DOMAIN store[u] :
        LET v == store[u][k]
        IN  v.syntax = "object" =>
              /\ k = v.mediaUrl
              /\ k \in DOMAIN media
              /\ media[k].mediaId = v.mediaId
              /\ media[k].type = v.mediaType
              /\ v.mediaType \in {"image", "gif"}
              /\ [userId |-> u, assetData |-> JSONparse(v)] \in acked

(* C11: a field appears in a user's collection only in the step in which   *)
(* an upload of that user is answered 200, after its one media-store call  *)
(* succeeded: the field is the mediaUrl the media store returned, the      *)
(* record holds that mediaUrl and mediaId, and its mediaType is gif when   *)
(* the declared type was image/gif and image otherwise, never video; and   *)
(* every record of every collection names an asset of the media store.     *)
C11_RecordsComeFromUploads ==
    [][ /\ \A u \in Users : \A k \in DOMAIN store'[u] \ DOMAIN store[u] :
              /\ last'.kind = "upload" /\ last'.userId = u /\ last'.status = 200
              /\ last'.mediaCalls = 1 /\ ~last'.mediaFailed /\ last'.kvWrites = 1
              /\ k = last'.assetData.mediaUrl
              /\ k \in DOMAIN media
              /\ media[k].mediaId = last'.assetData.mediaId
              /\ store'[u][k] = JSONstringify(last'.assetData)
              /\ last'.assetData.mediaType =
                    (IF last'.contentType = "image/gif" THEN "gif" ELSE "image")
              /\ last'.assetData.mediaType # "video"
        /\ RecordsSound' ]_vars

(* A GIF upload has just been written as a gif record, next to an image    *)
(* record of a PNG upload, while the media store holds a third asset that  *)
(* no collection names.                                                    *)
C11_Witness ==
    /\ last.kind = "upload" /\ last.status = 200 /\ last.contentType = "image/gif"
    /\ store[last.userId][last.assetData.mediaUrl].mediaType = "gif"
    /\ \E u \in Users : \E k \in DOMAIN store[u] : store[u][k].mediaType = "image"
    /\ Cardinality(DOMAIN media) = 3
    /\ Cardinality(UNION {DOMAIN store[u] : u \in Users}) = 2

====
